---- MODULE Spec2Model ----
(***************************************************************************)
(* contrib/seeds/makeseeds.py: the seed selection pipeline.                *)
(*                                                                         *)
(* A Python str is modelled as a sequence of one-character strings, a      *)
(* Python list as a sequence, a dict as a function.  A value whose Python  *)
(* type varies (int or str sort key, int or None ipnum) is a record        *)
(* [t |-> type, n |-> the int, s |-> the str], so that values of different *)
(* types compare unequal as they do in Python.                             *)
(***************************************************************************)
EXTENDS Integers, Sequences, FiniteSets, TLC

\* ------------------------------------------------------------------------
\* Bounds of the model
\* ------------------------------------------------------------------------
MaxLines == 3        \* lines of the report read by main()
MaxRecs == 3         \* records handed to a filter called on its own
MaxAsn == 2          \* distinct origin identifiers the lookup can answer
MaxCap == 1          \* the caps tried besides the configured ones are 0..MaxCap

\* ------------------------------------------------------------------------
\* Configuration (makeseeds.py:9-19)
\* ------------------------------------------------------------------------
NSEEDS == 512
MAX_SEEDS_PER_ASN == 2
MIN_BLOCKS == 615801
SUSPICIOUS_HOSTS == { <<>> }

\* ------------------------------------------------------------------------
\* Characters and strings
\* ------------------------------------------------------------------------
\* The characters of the model in code point order.
Ascii ==
  << "\t", "\n", " ", "\"", "#", "%", "+", "-", ".", "/",
     "0", "1", "2", "3", "4", "5", "6", "7", "8", "9", ":",
     "C", "G", "M", "Z", "[", "]",
     "a", "b", "c", "d", "e", "f", "g", "h", "i", "j", "k", "l", "m",
     "n", "o", "p", "q", "r", "s", "t", "u", "v", "w", "x", "y", "z" >>

Code(c) == CHOOSE i \in 1..Len(Ascii) : Ascii[i] = c

DecimalDigits == { Ascii[n] : n \in Code("0")..Code("9") }

LowerCase == { Ascii[n] : n \in Code("a")..Code("z") }

IsDigit(c) == c \in DecimalDigits


IsSpace(c) == c \in {" ", "\t", "\n"}

DigitVal(c) == Code(c) - Code("0")

\* of the upper case hexadecimal digits only "C" is a character of the model
HexVal(c) ==
  IF IsDigit(c) THEN DigitVal(c)
  ELSE IF c = "C" THEN 12
  ELSE 10 + Code(c) - Code("a")

HexDigits == DecimalDigits \cup { Ascii[n] : n \in Code("a")..Code("f") } \cup {"C"}

\* every character of s is one of the class
AllOf(s, class) == \A i \in 1..Len(s) : s[i] \in class

\* s[a:b] of Python for 0 <= a, with b counted from the start
Slice(s, a, b) == SubSeq(s, a + 1, IF b > Len(s) THEN Len(s) ELSE b)

\* s < t for two str: lexicographic by code point
RECURSIVE StrLess(_, _)
StrLess(s, t) ==
  IF t = <<>> THEN FALSE
  ELSE IF s = <<>> THEN TRUE
  ELSE IF Head(s) = Head(t) THEN StrLess(Tail(s), Tail(t))
  ELSE Code(Head(s)) < Code(Head(t))

\* str.split(): split on runs of whitespace, no empty tokens
RECURSIVE SplitWs(_, _, _)
SplitWs(s, cur, acc) ==
  IF s = <<>> THEN (IF cur = <<>> THEN acc ELSE Append(acc, cur))
  ELSE IF IsSpace(Head(s))
       THEN SplitWs(Tail(s), <<>>, IF cur = <<>> THEN acc ELSE Append(acc, cur))
       ELSE SplitWs(Tail(s), Append(cur, Head(s)), acc)

split(line) == SplitWs(line, <<>>, <<>>)

\* the pieces of s between the occurrences of the character c
RECURSIVE SplitOn(_, _, _, _)
SplitOn(s, c, cur, acc) ==
  IF s = <<>> THEN Append(acc, cur)
  ELSE IF Head(s) = c THEN SplitOn(Tail(s), c, <<>>, Append(acc, cur))
  ELSE SplitOn(Tail(s), c, Append(cur, Head(s)), acc)

\* re.sub(' ', '-', s)
SubSpaceHyphen(s) == [i \in 1..Len(s) |-> IF s[i] = " " THEN "-" ELSE s[i]]

\* ------------------------------------------------------------------------
\* Conversions: int(s), int(s, 16), float(s), '%i' % n
\* ------------------------------------------------------------------------
RECURSIVE DigitsVal(_, _)
DigitsVal(s, acc) ==
  IF s = <<>> THEN acc ELSE DigitsVal(Tail(s), 10 * acc + DigitVal(Head(s)))

RECURSIVE HexDigitsVal(_, _)
HexDigitsVal(s, acc) ==
  IF s = <<>> THEN acc ELSE HexDigitsVal(Tail(s), 16 * acc + HexVal(Head(s)))

Signed(s) == s # <<>> /\ Head(s) \in {"+", "-"}

Unsigned(s) == IF Signed(s) THEN Tail(s) ELSE s

Sign(s) == IF Signed(s) /\ Head(s) = "-" THEN -1 ELSE 1

\* int(s) raises ValueError unless s is an optional sign and decimal digits
IntOk(s) == Unsigned(s) # <<>> /\ AllOf(Unsigned(s), DecimalDigits)

int(s) == Sign(s) * DigitsVal(Unsigned(s), 0)

\* int(s, 16)
HexOk(s) == Unsigned(s) # <<>> /\ AllOf(Unsigned(s), HexDigits)

int16(s) == Sign(s) * HexDigitsVal(Unsigned(s), 0)

\* float(s) for the decimal notations "d+" and "d+.d{0,2}"; the value is kept
\* exactly, in hundredths.  Every other string of the model raises ValueError.
FracDigits == 2

Scale == 100

FloatParts(s) == SplitOn(Unsigned(s), ".", <<>>, <<>>)

FloatOk(s) ==
  LET p == FloatParts(s) IN
    /\ Len(p) \in {1, 2}
    /\ p[1] # <<>> /\ AllOf(p[1], DecimalDigits)
    /\ Len(p) = 2 => AllOf(p[2], DecimalDigits) /\ Len(p[2]) <= FracDigits

float(s) ==
  LET p == FloatParts(s)
      f == IF Len(p) = 2 THEN p[2] ELSE <<>>
      pad == f \o [i \in 1..(FracDigits - Len(f)) |-> "0"]
  IN Sign(s) * (Scale * DigitsVal(p[1], 0) + DigitsVal(pad, 0))

\* '%i' % n for n >= 0
RECURSIVE FormatInt(_)
FormatInt(n) ==
  IF n < 10 THEN << Ascii[Code("0") + n] >>
  ELSE Append(FormatInt(n \div 10), Ascii[Code("0") + (n % 10)])

\* ------------------------------------------------------------------------
\* The address and agent patterns (makeseeds.py:26-29), matched with re.match
\* ------------------------------------------------------------------------
\* ^((\d{1,3})\.(\d{1,3})\.(\d{1,3})\.(\d{1,3})):(\d+)$
\* groups: <<address, octet 1..4, port>> or <<>> when there is no match
PATTERN_IPV4(s) ==
  LET hp == SplitOn(s, ":", <<>>, <<>>)
      oct == IF Len(hp) = 2 THEN SplitOn(hp[1], ".", <<>>, <<>>) ELSE <<>>
  IN IF /\ Len(hp) = 2
        /\ Len(oct) = 4
        /\ \A i \in 1..4 : Len(oct[i]) \in 1..3 /\ AllOf(oct[i], DecimalDigits)
        /\ hp[2] # <<>> /\ AllOf(hp[2], DecimalDigits)
     THEN << hp[1], oct[1], oct[2], oct[3], oct[4], hp[2] >>
     ELSE <<>>

\* ^\[([0-9a-z:]+)\]:(\d+)$     groups: <<address, port>>
V6Chars == DecimalDigits \cup LowerCase \cup {":"}

PATTERN_IPV6(s) ==
  LET close == { i \in 1..Len(s) : s[i] = "]" }
      k == IF close = {} THEN 0 ELSE CHOOSE i \in close : \A j \in close : i <= j
      addr == SubSeq(s, 2, k - 1)
      port == SubSeq(s, k + 2, Len(s))
  IN IF /\ Len(s) >= 1 /\ s[1] = "["
        /\ k >= 3
        /\ AllOf(addr, V6Chars)
        /\ Len(s) >= k + 1 /\ s[k + 1] = ":"
        /\ port # <<>> /\ AllOf(port, DecimalDigits)
     THEN << addr, port >>
     ELSE <<>>

\* ^([abcdefghijklmnopqrstuvwxyz234567]{16}\.onion):(\d+)$
B32Chars == LowerCase \cup { Ascii[n] : n \in Code("2")..Code("7") }

DotOnion == << ".", "o", "n", "i", "o", "n" >>

PATTERN_ONION(s) ==
  LET port == SubSeq(s, 24, Len(s)) IN
  IF /\ Len(s) >= 24
     /\ AllOf(SubSeq(s, 1, 16), B32Chars)
     /\ SubSeq(s, 17, 22) = DotOnion
     /\ s[23] = ":"
     /\ AllOf(port, DecimalDigits)
  THEN << SubSeq(s, 1, 22), port >>
  ELSE <<>>

\* ^(/ZMGCore:2.2.(0|1|99)/)$   where "." is any character but a newline
AgentPrefix == << "/", "Z", "M", "G", "C", "o", "r", "e", ":", "2" >>

PATTERN_AGENT(s) ==
  LET body == IF Len(s) >= 1 /\ s[Len(s)] = "\n" THEN SubSeq(s, 1, Len(s) - 1) ELSE s
      rest == SubSeq(body, 14, Len(body))
  IN /\ Len(body) >= 15
     /\ SubSeq(body, 1, 10) = AgentPrefix
     /\ body[11] # "\n"
     /\ body[12] = "2"
     /\ body[13] # "\n"
     /\ rest \in { <<"0", "/">>, <<"1", "/">>, <<"9", "9", "/">> }

\* ------------------------------------------------------------------------
\* parseline (makeseeds.py:31-99)
\* ------------------------------------------------------------------------
\* The outcome of parseline: None, a record, or an exception that leaves it.
None == [tag |-> "None"]

Raise(e) == [tag |-> "raise", exc |-> e]

NetIPv4 == << "i", "p", "v", "4" >>

NetIPv6 == << "i", "p", "v", "6" >>

NetOnion == << "o", "n", "i", "o", "n" >>

IntVal(n) == [t |-> "int", n |-> n, s |-> <<>>]

StrVal(s) == [t |-> "str", n |-> 0, s |-> s]

NoneVal == [t |-> "NoneType", n |-> 0, s |-> <<>>]

\* lines 35-67: the address token, matched against the three patterns in turn
ParseAddress(tok) ==
  LET m4 == PATTERN_IPV4(tok)
      m6 == PATTERN_IPV6(tok)
      mo == PATTERN_ONION(tok)
      oct == [i \in 1..4 |-> int(m4[i + 1])]
      ip == oct[1] * 16777216 + oct[2] * 65536 + oct[3] * 256 + oct[4]
  IN
  IF m4 # <<>> THEN
       IF \E i \in 1..4 : oct[i] < 0 \/ oct[i] > 255 THEN None
       ELSE IF ip = 0 THEN None
       ELSE [tag |-> "addr", net |-> NetIPv4, ip |-> m4[1], port |-> int(m4[6]),
             ipnum |-> IntVal(ip), sortkey |-> IntVal(ip)]
  ELSE IF m6 # <<>> THEN
       IF m6[1] = << ":", ":" >> THEN None
       ELSE [tag |-> "addr", net |-> NetIPv6, ip |-> m6[1], port |-> int(m6[2]),
             ipnum |-> NoneVal, sortkey |-> StrVal(m6[1])]
  ELSE IF mo # <<>> THEN
       [tag |-> "addr", net |-> NetOnion, ip |-> mo[1], port |-> int(mo[2]),
        ipnum |-> NoneVal, sortkey |-> StrVal(mo[1])]
  ELSE None

\* line 69: sline[1] == 0 compares a str with an int, which is never equal
StrEqInt(s, n) == FALSE

parseline(line) ==
  LET sline == split(line)
      a == ParseAddress(sline[1])
      n == Len(sline)
      uptok == Slice(sline[8], 0, Len(sline[8]) - 1)
      agent == IF n > 11
               THEN Slice(sline[12], 1, Len(sline[12]))
                    \o Slice(sline[13], 0, Len(sline[13]) - 1)
               ELSE Slice(sline[12], 1, Len(sline[12]) - 1)
  IN
  IF n < 11 THEN None
  ELSE IF a = None THEN None
  ELSE IF StrEqInt(sline[2], 0) THEN None
  ELSE IF ~FloatOk(uptok) THEN Raise("ValueError")
  ELSE IF ~IntOk(sline[3]) THEN Raise("ValueError")
  ELSE IF ~IntOk(sline[11]) THEN Raise("ValueError")
  ELSE IF n < 13 THEN Raise("IndexError")
  ELSE IF ~HexOk(sline[10]) THEN Raise("ValueError")
  ELSE IF ~IntOk(sline[9]) THEN Raise("ValueError")
  ELSE [tag |-> "rec",
        net |-> a.net,
        ip |-> a.ip,
        port |-> a.port,
        ipnum |-> a.ipnum,
        uptime |-> float(uptok),
        lastsuccess |-> int(sline[3]),
        version |-> int(sline[11]),
        agent |-> agent,
        service |-> int16(sline[10]),
        blocks |-> int(sline[9]),
        sortkey |-> a.sortkey]

\* ------------------------------------------------------------------------
\* The report: lines built of tokens
\* ------------------------------------------------------------------------
RECURSIVE JoinSp(_)
JoinSp(toks) ==
  IF toks = <<>> THEN << "\n" >>
  ELSE IF Len(toks) = 1 THEN Head(toks) \o << "\n" >>
  ELSE Head(toks) \o << " " >> \o JoinSp(Tail(toks))

\* tokens of the reports of the model
AddrA == << "9", ".", "0", ".", "0", ".", "1", ":", "1" >>

AddrA2 == << "0", "9", ".", "0", ".", "0", ".", "1", ":", "2" >>

AddrB == << "1", "0", ".", "0", ".", "0", ".", "1", ":", "1" >>

AddrC == << "1", "1", ".", "0", ".", "0", ".", "1", ":", "1" >>

AddrV6 == << "[", "a", ":", ":", "1", "]", ":", "1" >>

AddrOnion == << "a", "b", "c", "d", "e", "f", "g", "h", "i", "j", "k", "l", "m", "n", "2", "7", ".", "o", "n", "i", "o", "n", ":", "1" >>

AddrA2Big == << "0", "9", ".", "0", ".", "0", ".", "1", ":", "7", "0", "0", "0", "0" >>

AddrA3 == << "9", ".", "0", ".", "0", ".", "1", ":", "2" >>

Up60 == << "6", "0", ".", "0", "%" >>

Up70 == << "7", "0", "%" >>

Up50 == << "5", "0", ".", "0", "%" >>

Ts5 == << "5" >>

Ts6 == << "6" >>

TsBad == << "x" >>

Blocks == << "6", "1", "5", "8", "0", "1" >>

BlocksLow == << "6", "1", "5", "8", "0", "0" >>

Svc == << "d" >>

SvcEven == << "C" >>

Version == << "7", "0", "0", "1", "5" >>

AgentOpen == << "\"", "/", "Z", "M", "G", "C", "o", "r", "e", ":", "2", ".", "2", ".", "0", "/" >>

AgentOld == << "\"", "/", "Z", "M", "G", "C", "o", "r", "e", ":", "2", ".", "1", ".", "0", "/" >>

AgentWhole == << "\"", "/", "Z", "M", "G", "C", "o", "r", "e", ":", "2", ".", "2", ".", "0", "/", "\"" >>

Quote == << "\"" >>

Zero == << "0" >>

One == << "1" >>

\* one line of the report: address, good, lastSuccess, four unused uptime
\* columns, 30 day uptime, blocks, services, version and the quoted agent in
\* two tokens
Line(addr, ts, up, blocks, svc, agent) ==
  JoinSp(<< addr, One, ts, Zero, Zero, Zero, Zero, up, blocks, svc, Version,
            agent, Quote >>)

Good(addr, ts, up) == Line(addr, ts, up, Blocks, Svc, AgentOpen)

\* a line as the crawler writes it for an agent without a space in it: the
\* quoted agent is one token, the line has 12 tokens
Whole == JoinSp(<< AddrC, One, Ts5, Zero, Zero, Zero, Zero, Up60, Blocks, Svc,
                   Version, AgentWhole >>)

\* reports of nodes that pass every gate: three IPv4 hosts, a second listener
\* on the first of them, an IPv6 and an Onion node
SeedLines ==
  { Good(AddrA, Ts5, Up60), Good(AddrA2, Ts6, Up60), Good(AddrB, Ts5, Up60),
    Good(AddrC, Ts5, Up70), Good(AddrV6, Ts5, Up60), Good(AddrOnion, Ts6, Up70) }

\* a good node; a second listener on its host, with a port beyond 65535; the
\* host again with an uptime of exactly 50; a host that fails one of the other
\* gates in each of three lines; lines that make parseline raise (a
\* lastSuccess that is no number, a line of 12 tokens); lines parseline
\* rejects (10 tokens, the address 0.0.0.0)
ReportLines ==
  { Good(AddrA, Ts5, Up60),
    Good(AddrA2Big, Ts6, Up60),
    Good(AddrA3, Ts5, Up50),
    Line(AddrB, Ts5, Up60, BlocksLow, Svc, AgentOpen),
    Line(AddrB, Ts5, Up60, Blocks, SvcEven, AgentOpen),
    Line(AddrB, Ts5, Up60, Blocks, Svc, AgentOld),
    Good(AddrC, TsBad, Up60),
    Whole,
    JoinSp(<< AddrC, One, Ts5, Zero, Zero, Zero, Zero, Up60, Blocks, Svc >>) }

\* two hosts whose reports tie in uptime and lastSuccess, a second listener
\* on the first with the same uptime and lastSuccess, and an IPv6 node
TwiceLines ==
  { Good(AddrA, Ts5, Up60), Good(AddrA3, Ts5, Up60), Good(AddrB, Ts5, Up60),
    Good(AddrV6, Ts5, Up60) }

ListsOf(S, n) == UNION { [1..m -> S] : m \in 0..n }

\* ------------------------------------------------------------------------
\* State
\* ------------------------------------------------------------------------
VARIABLES
  pc,           \* where main() is
  lines,        \* sys.stdin.readlines()
  i,            \* the line parseline is applied to next
  zmg,          \* the working list of main()
  max_per_asn,  \* parameters of filterbyasn
  max_total,
  zmg_ipv4,     \* locals of filterbyasn
  zmg_ipv6,
  zmg_onion,
  result,
  asn_count,
  k,            \* position of the for loop in zmg_ipv4
  stderr,       \* addresses of the diagnostics written
  stdout,       \* lines printed
  log,          \* history: the lookups of this run, [rec, asn, verdict]
  run,          \* 1, or 2 in the second run over the permuted report
  oracle,       \* second run: the answers of the first run by address
  first         \* second run: how the first run ended and what it printed

vars == << pc, lines, i, zmg, max_per_asn, max_total, zmg_ipv4, zmg_ipv6,
           zmg_onion, result, asn_count, k, stderr, stdout, log, run, oracle,
           first >>

EmptyDict == [a \in {} |-> 0]

Locals ==
  /\ i = 1
  /\ max_per_asn = 0
  /\ max_total = 0
  /\ zmg_ipv4 = <<>>
  /\ zmg_ipv6 = <<>>
  /\ zmg_onion = <<>>
  /\ result = <<>>
  /\ asn_count = EmptyDict
  /\ k = 1
  /\ stderr = <<>>
  /\ stdout = <<>>
  /\ log = <<>>
  /\ run = 1
  /\ oracle = EmptyDict
  /\ first = <<>>

\* main() on a report of well-formed lines of good nodes
Init ==
  /\ pc = "parse"
  /\ lines \in ListsOf(SeedLines \cup {Whole}, MaxLines)
  /\ zmg = <<>>
  /\ Locals

\* main() on a report with lines of every kind
InitReport ==
  /\ pc = "parse"
  /\ lines \in ListsOf(ReportLines, MaxLines)
  /\ zmg = <<>>
  /\ Locals

\* main() twice, on a report and on the report with two lines swapped
InitTwice ==
  /\ pc = "parse"
  /\ lines \in ListsOf(TwiceLines \cup {Whole}, MaxLines)
  /\ zmg = <<>>
  /\ Locals

\* the records of the good nodes
SeedRecords == { parseline(l) : l \in SeedLines }

\* filtermultiport and filterbyasn called on any list of records
InitCall ==
  /\ pc \in {"multiport", "asn"}
  /\ lines = <<>>
  /\ zmg \in ListsOf(SeedRecords, MaxRecs)
  /\ Locals

\* ------------------------------------------------------------------------
\* main: lines 140-141, zmg = [parseline(line) for line in lines]
\* ------------------------------------------------------------------------
ParseLine ==
  /\ pc = "parse"
  /\ i <= Len(lines)
  /\ LET ip == parseline(lines[i])
     IN ip.tag # "raise" /\ zmg' = Append(zmg, ip)
  /\ i' = i + 1
  /\ UNCHANGED << pc, lines, max_per_asn, max_total, zmg_ipv4, zmg_ipv6,
                  zmg_onion, result, asn_count, k, stderr, stdout, log, run,
                  oracle, first >>

\* an exception of parseline is caught nowhere: main() ends with a traceback
\* and has printed nothing
ParseLineRaise ==
  /\ pc = "parse"
  /\ i <= Len(lines)
  /\ parseline(lines[i]).tag = "raise"
  /\ pc' = "aborted"
  /\ UNCHANGED << lines, i, zmg, max_per_asn, max_total, zmg_ipv4, zmg_ipv6,
                  zmg_onion, result, asn_count, k, stderr, stdout, log, run,
                  oracle, first >>

\* ------------------------------------------------------------------------
\* main: lines 143-154, the quality gates
\* ------------------------------------------------------------------------
NotNone(ip) == ip.tag # "None"

NotSuspicious(ip) == ip.ip \notin SUSPICIOUS_HOSTS

EnoughBlocks(ip) == ip.blocks >= MIN_BLOCKS

\* (ip['service'] & 1) == 1
ServiceBit(ip) == ip.service % 2 = 1

\* the gate with >= for >
UptimeAtLeast(ip) == ip.uptime >= 50 * Scale

\* ip['uptime'] > 50
Uptime(ip) == ip.uptime > 50 * Scale

KnownAgent(ip) == PATTERN_AGENT(SubSpaceHyphen(ip.agent))

Gates(z) ==
  SelectSeq(SelectSeq(SelectSeq(SelectSeq(SelectSeq(SelectSeq(z,
    NotNone), NotSuspicious), EnoughBlocks), ServiceBit), Uptime), KnownAgent)

QualityFilter ==
  /\ pc = "parse"
  /\ i = Len(lines) + 1
  /\ zmg' = Gates(zmg)
  /\ pc' = "sort"
  /\ UNCHANGED << lines, i, max_per_asn, max_total, zmg_ipv4, zmg_ipv6,
                  zmg_onion, result, asn_count, k, stderr, stdout, log, run,
                  oracle, first >>

\* ------------------------------------------------------------------------
\* main: line 156, zmg.sort(key=(uptime, lastsuccess, ip), reverse=True)
\* ------------------------------------------------------------------------
\* the key without the address
QualityLessNoIp(a, b) ==
  \/ a.uptime < b.uptime
  \/ a.uptime = b.uptime /\ a.lastsuccess < b.lastsuccess

\* the key of a is less than the key of b
QualityLess(a, b) ==
  \/ a.uptime < b.uptime
  \/ a.uptime = b.uptime /\ a.lastsuccess < b.lastsuccess
  \/ a.uptime = b.uptime /\ a.lastsuccess = b.lastsuccess /\ StrLess(a.ip, b.ip)

\* x < y for two sort keys; an int and a str do not meet, the nets differ
ValueLess(x, y) == IF x.t = "int" THEN x.n < y.n ELSE StrLess(x.s, y.s)

\* line 162: (net, sortkey) of a before that of b
KeyBefore(a, b) ==
  \/ StrLess(a.net, b.net)
  \/ a.net = b.net /\ ValueLess(a.sortkey, b.sortkey)

\* the sort without reverse=True
QualityAscending(a, b) == QualityLess(a, b)

QualityBefore(a, b) == QualityLess(b, a)

\* a comes before b in the list sorted by the key of line 156 or of line 162
Before(key, a, b) ==
  IF key = "quality" THEN QualityBefore(a, b) ELSE KeyBefore(a, b)

\* list.sort is stable, reversed or not: x goes behind every element that
\* does not come after it
Insert(sorted, x, key) ==
  LET later == { j \in 1..Len(sorted) : Before(key, x, sorted[j]) }
      at == IF later = {} THEN Len(sorted) + 1
            ELSE CHOOSE j \in later : \A l \in later : j <= l
  IN SubSeq(sorted, 1, at - 1) \o << x >> \o SubSeq(sorted, at, Len(sorted))

Sort(list, key) ==
  LET done[n \in 0..Len(list)] ==
        IF n = 0 THEN <<>> ELSE Insert(done[n - 1], list[n], key)
  IN done[Len(list)]

SortQuality ==
  /\ pc = "sort"
  /\ zmg' = Sort(zmg, "quality")
  /\ pc' = "multiport"
  /\ UNCHANGED << lines, i, max_per_asn, max_total, zmg_ipv4, zmg_ipv6,
                  zmg_onion, result, asn_count, k, stderr, stdout, log, run,
                  oracle, first >>

\* ------------------------------------------------------------------------
\* filtermultiport (makeseeds.py:101-106)
\* ------------------------------------------------------------------------
\* hist, a dict, as the list of its items in the order of insertion
HistAdd(hist, ip) ==
  IF \E j \in 1..Len(hist) : hist[j].key = ip.sortkey
  THEN [j \in 1..Len(hist) |->
          IF hist[j].key = ip.sortkey
          THEN [key |-> hist[j].key, value |-> Append(hist[j].value, ip)]
          ELSE hist[j]]
  ELSE Append(hist, [key |-> ip.sortkey, value |-> << ip >>])

Hist(z) ==
  LET hist[n \in 0..Len(z)] ==
        IF n = 0 THEN <<>> ELSE HistAdd(hist[n - 1], z[n])
  IN hist[Len(z)]

\* the first record of every group kept
AnyValue(item) == Len(item.value) >= 1

OneValue(item) == Len(item.value) = 1

\* the groups taken from hist in the reverse of their order of insertion
filtermultiportReversed(z) ==
  LET single == SelectSeq(Hist(z), OneValue)
  IN [j \in 1..Len(single) |-> single[Len(single) + 1 - j].value[1]]

filtermultiport(z) ==
  LET single == SelectSeq(Hist(z), OneValue)
  IN [j \in 1..Len(single) |-> single[j].value[1]]

\* main: line 158
FilterMultiport ==
  /\ pc = "multiport"
  /\ zmg' = filtermultiport(zmg)
  /\ pc' = "asn"
  /\ UNCHANGED << lines, i, max_per_asn, max_total, zmg_ipv4, zmg_ipv6,
                  zmg_onion, result, asn_count, k, stderr, stdout, log, run,
                  oracle, first >>

\* ------------------------------------------------------------------------
\* filterbyasn (makeseeds.py:109-137)
\* ------------------------------------------------------------------------
\* The caps filterbyasn is called with: the configured ones and small ones.
PerAsnCaps == (0..MaxCap) \cup {MAX_SEEDS_PER_ASN}

TotalCaps == (0..MaxCap) \cup {NSEEDS}

Caps ==
  IF run = 2 THEN {<< max_per_asn, max_total >>} ELSE PerAsnCaps \X TotalCaps

IsIPv4(ip) == ip.net = NetIPv4

IsIPv6(ip) == ip.net = NetIPv6

IsOnion(ip) == ip.net = NetOnion

\* lines 109-117 (called from main, line 160)
AsnStart ==
  /\ pc = "asn"
  /\ \E c \in Caps : max_per_asn' = c[1] /\ max_total' = c[2]
  /\ zmg_ipv4' = SelectSeq(zmg, IsIPv4)
  /\ zmg_ipv6' = SelectSeq(zmg, IsIPv6)
  /\ zmg_onion' = SelectSeq(zmg, IsOnion)
  /\ result' = <<>>
  /\ asn_count' = EmptyDict
  /\ k' = 1
  /\ pc' = "loop"
  /\ UNCHANGED << lines, i, zmg, stderr, stdout, log, run, oracle, first >>

\* line 122: the answer of the lookup service for an address, an origin
\* identifier in 1..MaxAsn or 0 when the lookup or the parsing of its answer
\* raises.  In a second run the service answers as in the first.
Lookup(ip) ==
  IF run = 2 /\ ip.ip \in DOMAIN oracle THEN {oracle[ip.ip]} ELSE 0..MaxAsn

\* the break of line 119 taken one record late
FullLate == Len(result) = max_total + 1

\* line 119
Full == Len(result) = max_total

Looking == pc = "loop" /\ k <= Len(zmg_ipv4) /\ ~Full

\* the test of line 125 off by one
AtCapLate(n) == n = max_per_asn + 1

\* line 125
AtCap(n) == n = max_per_asn

\* lines 123-124
Counted(asn) == IF asn \in DOMAIN asn_count THEN asn_count ELSE asn_count @@ (asn :> 0)

\* line 118: the list is exhausted
AsnEnd ==
  /\ pc = "loop"
  /\ k > Len(zmg_ipv4)
  /\ pc' = "extend"
  /\ UNCHANGED << lines, i, zmg, max_per_asn, max_total, zmg_ipv4, zmg_ipv6,
                  zmg_onion, result, asn_count, k, stderr, stdout, log, run,
                  oracle, first >>

\* lines 119-120
AsnBreak ==
  /\ pc = "loop"
  /\ k <= Len(zmg_ipv4)
  /\ Full
  /\ pc' = "extend"
  /\ UNCHANGED << lines, i, zmg, max_per_asn, max_total, zmg_ipv4, zmg_ipv6,
                  zmg_onion, result, asn_count, k, stderr, stdout, log, run,
                  oracle, first >>

\* a failed lookup that counts as an accepted record of the origin 1
AsnFailCounted ==
  /\ Looking
  /\ 0 \in Lookup(zmg_ipv4[k])
  /\ stderr' = Append(stderr, zmg_ipv4[k].ip)
  /\ asn_count' = [Counted(1) EXCEPT ![1] = @ + 1]
  /\ log' = Append(log, [rec |-> zmg_ipv4[k], asn |-> 0, verdict |-> "failed"])
  /\ k' = k + 1
  /\ UNCHANGED << pc, lines, i, zmg, max_per_asn, max_total, zmg_ipv4,
                  zmg_ipv6, zmg_onion, result, stdout, run, oracle, first >>

\* lines 121-122, 129-130: the lookup raises
AsnFail ==
  /\ Looking
  /\ 0 \in Lookup(zmg_ipv4[k])
  /\ stderr' = Append(stderr, zmg_ipv4[k].ip)
  /\ log' = Append(log, [rec |-> zmg_ipv4[k], asn |-> 0, verdict |-> "failed"])
  /\ k' = k + 1
  /\ UNCHANGED << pc, lines, i, zmg, max_per_asn, max_total, zmg_ipv4,
                  zmg_ipv6, zmg_onion, result, asn_count, stdout, run, oracle,
                  first >>

\* lines 122-126: the origin has its share already
AsnSkip ==
  /\ Looking
  /\ \E asn \in Lookup(zmg_ipv4[k]) \ {0} :
       /\ AtCap(Counted(asn)[asn])
       /\ asn_count' = Counted(asn)
       /\ log' = Append(log, [rec |-> zmg_ipv4[k], asn |-> asn, verdict |-> "skipped"])
  /\ k' = k + 1
  /\ UNCHANGED << pc, lines, i, zmg, max_per_asn, max_total, zmg_ipv4,
                  zmg_ipv6, zmg_onion, result, stderr, stdout, run, oracle,
                  first >>

\* lines 122-128
AsnAccept ==
  /\ Looking
  /\ \E asn \in Lookup(zmg_ipv4[k]) \ {0} :
       /\ ~AtCap(Counted(asn)[asn])
       /\ asn_count' = [Counted(asn) EXCEPT ![asn] = @ + 1]
       /\ log' = Append(log, [rec |-> zmg_ipv4[k], asn |-> asn, verdict |-> "accepted"])
  /\ result' = Append(result, zmg_ipv4[k])
  /\ k' = k + 1
  /\ UNCHANGED << pc, lines, i, zmg, max_per_asn, max_total, zmg_ipv4,
                  zmg_ipv6, zmg_onion, stderr, stdout, run, oracle, first >>

\* lines 135-137
AsnReturn ==
  /\ pc = "extend"
  /\ result' = result \o zmg_ipv6 \o zmg_onion
  /\ pc' = "return"
  /\ UNCHANGED << lines, i, zmg, max_per_asn, max_total, zmg_ipv4, zmg_ipv6,
                  zmg_onion, asn_count, k, stderr, stdout, log, run, oracle,
                  first >>

filterbyasn ==
  AsnStart \/ AsnEnd \/ AsnBreak \/ AsnFail \/ AsnSkip \/ AsnAccept \/ AsnReturn

\* ------------------------------------------------------------------------
\* main: lines 160-168
\* ------------------------------------------------------------------------
\* line 160, the assignment, and line 162
SortOutput ==
  /\ pc = "return"
  /\ zmg' = Sort(result, "output")
  /\ pc' = "emit"
  /\ UNCHANGED << lines, i, max_per_asn, max_total, zmg_ipv4, zmg_ipv6,
                  zmg_onion, result, asn_count, k, stderr, stdout, log, run,
                  oracle, first >>

\* lines 165-168
Printed(ip) ==
  IF ip.net = NetIPv6
  THEN << "[" >> \o ip.ip \o << "]", ":" >> \o FormatInt(ip.port)
  ELSE ip.ip \o << ":" >> \o FormatInt(ip.port)

Emit ==
  /\ pc = "emit"
  /\ stdout' = [j \in 1..Len(zmg) |-> Printed(zmg[j])]
  /\ pc' = "done"
  /\ UNCHANGED << lines, i, zmg, max_per_asn, max_total, zmg_ipv4, zmg_ipv6,
                  zmg_onion, result, asn_count, k, stderr, log, run, oracle,
                  first >>

main ==
  \/ ParseLine
  \/ ParseLineRaise
  \/ QualityFilter
  \/ SortQuality
  \/ FilterMultiport
  \/ filterbyasn
  \/ SortOutput
  \/ Emit

\* ------------------------------------------------------------------------
\* A second run of main() on the same report, two neighbouring lines swapped,
\* with the same caps and a lookup service that answers as before.  Every
\* permutation of a report is a chain of such swaps.
\* ------------------------------------------------------------------------
Swapped(l, j) ==
  [n \in 1..Len(l) |-> IF n = j THEN l[j + 1] ELSE IF n = j + 1 THEN l[j] ELSE l[n]]

Answers ==
  LET asked == { log[j].rec.ip : j \in 1..Len(log) }
  IN [a \in asked |-> log[CHOOSE j \in 1..Len(log) : log[j].rec.ip = a].asn]

Rerun ==
  /\ pc \in {"done", "aborted"}
  /\ run = 1
  /\ \E j \in 1..(Len(lines) - 1) : lines' = Swapped(lines, j)
  /\ first' = << pc, stdout >>
  /\ oracle' = Answers
  /\ run' = 2
  /\ pc' = "parse"
  /\ i' = 1
  /\ zmg' = <<>>
  /\ zmg_ipv4' = <<>>
  /\ zmg_ipv6' = <<>>
  /\ zmg_onion' = <<>>
  /\ result' = <<>>
  /\ asn_count' = EmptyDict
  /\ k' = 1
  /\ stderr' = <<>>
  /\ stdout' = <<>>
  /\ log' = <<>>
  /\ UNCHANGED << max_per_asn, max_total >>

\* ------------------------------------------------------------------------
\* Specifications
\* ------------------------------------------------------------------------
Next == main

Spec == Init /\ [][Next]_vars

SpecReport == InitReport /\ [][Next]_vars

NextCall == FilterMultiport \/ filterbyasn

SpecCall == InitCall /\ [][NextCall]_vars

NextTwice == main \/ Rerun

SpecTwice == InitTwice /\ [][NextTwice]_vars

\* ------------------------------------------------------------------------
\* Properties
\* ------------------------------------------------------------------------
InFilterByAsn == pc \in {"loop", "extend", "return"}

\* the lookups that ended with the given verdict, in order
Verdicts(v) == { j \in 1..Len(log) : log[j].verdict = v }

AcceptedOf(asn) ==
  Cardinality({ j \in Verdicts("accepted") : log[j].asn = asn })

\* the IPv4 records of the result, with the origin each resolved to
AcceptedRecs ==
  LET acc == SelectSeq(log, LAMBDA e : e.verdict = "accepted")
  IN [j \in 1..Len(acc) |-> acc[j].rec]

Count(x, list) == Cardinality({ j \in 1..Len(list) : list[j] = x })

\* C1: at every step of filterbyasn and in its result, the IPv4 records of
\* the result are the accepted ones, no origin has more than max_per_asn of
\* them, and asn_count[asn] is the number of accepted records of asn.
C1_PerOriginCap ==
  InFilterByAsn =>
    /\ SelectSeq(result, IsIPv4) = AcceptedRecs
    /\ \A asn \in 1..MaxAsn : AcceptedOf(asn) <= max_per_asn
    /\ \A asn \in DOMAIN asn_count :
         asn_count[asn] = AcceptedOf(asn) /\ asn_count[asn] <= max_per_asn

\* three records of one origin under the configured cap: two are in the
\* result, the third was skipped
C1_Witness ==
  /\ pc = "return"
  /\ max_per_asn = MAX_SEEDS_PER_ASN
  /\ \E asn \in 1..MaxAsn :
       /\ AcceptedOf(asn) = MAX_SEEDS_PER_ASN
       /\ \E j \in Verdicts("skipped") : log[j].asn = asn

\* C2: the result holds at most max_total IPv4 records, nothing is looked up
\* once max_total are accepted, and every IPv6 and Onion record of the input
\* is in the result as often as in the input, whatever the lookups answered.
C2_TotalBoundsIPv4Only ==
  InFilterByAsn =>
    /\ Len(SelectSeq(result, IsIPv4)) <= max_total
    /\ \A j \in 1..Len(log) :
         Cardinality({ m \in Verdicts("accepted") : m < j }) < max_total
    /\ pc = "return" =>
         \A j \in 1..Len(zmg) :
           ~IsIPv4(zmg[j]) => Count(zmg[j], result) = Count(zmg[j], zmg)

\* max_total records were accepted and the loop was left with a record not
\* looked up; the record that is not IPv4 came through, which makes the
\* result longer than max_total
C2_Witness ==
  /\ pc = "return"
  /\ max_total >= 1
  /\ Len(AcceptedRecs) = max_total
  /\ k <= Len(zmg_ipv4)
  /\ Len(zmg_ipv6) + Len(zmg_onion) >= 1
  /\ \A j \in 1..Len(zmg) : ~IsIPv4(zmg[j]) => Count(zmg[j], result) = 1
  /\ Len(result) > max_total

\* C6: a step of the loop whose lookup fails writes one diagnostic, leaves
\* result and asn_count as they are and goes on with the next record; at every
\* step the records looked up are those before the loop position, in order.
C6_LookupFailureRecoverable ==
  [][ /\ (pc = "loop" /\ Len(log') = Len(log) + 1 /\ log'[Len(log')].asn = 0)
        => /\ pc' = "loop"
           /\ result' = result
           /\ asn_count' = asn_count
           /\ stderr' = Append(stderr, zmg_ipv4[k].ip)
           /\ zmg_ipv4' = zmg_ipv4
           /\ k' = k + 1
      /\ (pc' \in {"loop", "extend", "return"})
        => /\ [j \in 1..Len(log') |-> log'[j].rec] = SubSeq(zmg_ipv4', 1, k' - 1)
           /\ Len(stderr') = Cardinality({ j \in 1..Len(log') : log'[j].asn = 0 })
    ]_vars

\* a lookup failed, and the record after it was looked up and accepted under
\* caps of one, the quota untouched by the failure
C6_Witness ==
  /\ pc = "return"
  /\ max_per_asn = 1 /\ max_total = 1
  /\ \E j \in Verdicts("failed") : j + 1 \in Verdicts("accepted")
  /\ Len(stderr) >= 1

\* the outcome of parseline for each line of the report
Parsed == [j \in 1..Len(lines) |-> parseline(lines[j])]

AfterGates ==
  pc \in {"sort", "multiport", "asn", "loop", "extend", "return", "emit", "done"}

\* C3: main() prints at most as many lines as the configured maximum, IPv4,
\* IPv6 and Onion together.
C3_TotalOutputBounded == pc = "done" => Len(stdout) <= max_total

\* C7: no line of the report ends the run with an error.
C7_NoLineFatal == pc # "aborted"

\* C8: every record parseline returns has a port in 0..65535.
C8_PortRange ==
  \A j \in 1..Len(zmg) : zmg[j].tag = "rec" => zmg[j].port \in 0..65535

\* the gates of lines 144-154, one by one
PassesGates(r) ==
  /\ r.tag = "rec"
  /\ r.service % 2 = 1
  /\ r.uptime > 50 * Scale
  /\ r.blocks >= MIN_BLOCKS
  /\ r.ip \notin SUSPICIOUS_HOSTS
  /\ PATTERN_AGENT(SubSpaceHyphen(r.agent))

OnlyKey(r, list) ==
  Cardinality({ j \in 1..Len(list) : list[j].sortkey = r.sortkey }) = 1

\* C4: filtermultiport returns, in their order, exactly the records whose
\* sortkey no other record of its input has, so no sortkey is left twice; in
\* main() its input is the list of the records that passed the gates.
C4_CollisionFilter ==
  [][ pc = "multiport" =>
        /\ \A j \in 1..Len(zmg) : PassesGates(zmg[j])
        /\ LET parsed == Parsed IN
           \A m \in 1..Len(lines) :
             PassesGates(parsed[m]) => Count(parsed[m], zmg) = Count(parsed[m], parsed)
        /\ zmg' = SelectSeq(zmg, LAMBDA r : OnlyKey(r, zmg))
        /\ \A j \in 1..Len(zmg') : OnlyKey(zmg'[j], zmg')
    ]_vars

\* the report has two listeners of one host that pass the gates, which are
\* both dropped, and a third on that host that failed a gate
C4_Witness ==
  /\ pc = "asn"
  /\ zmg = <<>>
  /\ LET parsed == Parsed IN
     /\ \E a, b \in 1..Len(lines) :
          /\ PassesGates(parsed[a]) /\ PassesGates(parsed[b])
          /\ parsed[a].sortkey = parsed[b].sortkey
          /\ parsed[a].ip # parsed[b].ip
     /\ \E c \in 1..Len(lines) : parsed[c].tag = "rec" /\ ~PassesGates(parsed[c])

\* (uptime, lastsuccess, ip) of a is greater than that of b
Above(a, b) ==
  \/ a.uptime > b.uptime
  \/ a.uptime = b.uptime /\ a.lastsuccess > b.lastsuccess
  \/ a.uptime = b.uptime /\ a.lastsuccess = b.lastsuccess /\ StrLess(b.ip, a.ip)

\* C9: filterbyasn looks at the IPv4 records in strictly descending order of
\* (uptime, lastsuccess, ip).  A record skipped for the cap of its origin has
\* max_per_asn accepted records of that origin above it; a record the loop
\* did not reach has max_total accepted records above it.
C9_QualityFirst ==
  InFilterByAsn =>
    /\ \A j \in 1..(Len(zmg_ipv4) - 1) : Above(zmg_ipv4[j], zmg_ipv4[j + 1])
    /\ \A j \in Verdicts("skipped") :
         Cardinality({ m \in Verdicts("accepted") :
                         /\ log[m].asn = log[j].asn
                         /\ Above(log[m].rec, log[j].rec) }) = max_per_asn
    /\ pc \in {"extend", "return"} =>
         \A j \in k..Len(zmg_ipv4) :
           Cardinality({ m \in Verdicts("accepted") :
                           Above(log[m].rec, zmg_ipv4[j]) }) = max_total

\* a record was skipped for the cap of its origin, a cap of at least one
C9_Witness ==
  /\ pc = "return"
  /\ max_per_asn >= 1
  /\ Verdicts("skipped") # {}

\* C10: the second run, on the report with two lines swapped, ends as the
\* first and prints the same lines; the lines printed are in strictly
\* ascending order of (net, sortkey).
C10_OrderIndependent ==
  /\ (run = 2 /\ pc \in {"done", "aborted"}) => first = << pc, stdout >>
  /\ pc = "done" => \A j \in 1..(Len(zmg) - 1) : KeyBefore(zmg[j], zmg[j + 1])

\* the second run is over and has printed two lines; the report has two
\* lines that tie in the first sort and are not printed
C10_Witness ==
  /\ run = 2
  /\ pc = "done"
  /\ Len(stdout) >= 1
  /\ first[2] = stdout
  /\ LET parsed == Parsed IN
     \E a, b \in 1..Len(lines) :
       /\ a # b
       /\ parsed[a] # parsed[b]
       /\ ~QualityLess(parsed[a], parsed[b]) /\ ~QualityLess(parsed[b], parsed[a])
====
